---- MODULE Spec2Model ----
(***************************************************************************)
(* LeadSync: the lead lifecycle and automation engine.                     *)
(*                                                                         *)
(* The repository holds two programs over the same data model:             *)
(*   - src/unnamed/part_000: the API object (getLeads, saveLeads,          *)
(*     deleteLead, updateLead, addLead) and the App that edits leads and  *)
(*     sends AI replies through it;                                        *)
(*   - src/index.tsx: MockBackend (getLeads, saveLeads, captureLead,       *)
(*     updateStatus) and the App with the background automation timer.     *)
(*                                                                         *)
(* Three specifications are defined over one set of variables:             *)
(*   SpecRepo   the API object and MockBackend driven by arbitrary calls;  *)
(*   SpecSched  the App of src/index.tsx (timers, toggle, manual updates); *)
(*   SpecApp    the App of src/unnamed/part_000 (modal edits, AI reply).   *)
(*                                                                         *)
(* Time is counted in seconds: setInterval(.., 8000) is 8 units,           *)
(* setTimeout(.., 3000) is 3 units. Timers fire when they are due.         *)
(***************************************************************************)
EXTENDS Integers, Sequences, FiniteSets, TLC

VARIABLES
    now,            \* the wall clock, new Date()
    issued,         \* ids seen so far (generated or supplied)
    ev,             \* the last operation that ran, with arguments and result
    nops,           \* number of operations the environment has issued
    \* --- src/unnamed/part_000 ---
    db,             \* localStorage slot 'leadflow_leads_v2'
    live,           \* history: ids created and not deleted afterwards
    written,        \* history: id -> record last written by addLead/updateLead
    \* --- src/index.tsx ---
    store,          \* localStorage slot 'leadflow_leads_db'
    leads,          \* useState<Lead[]>: the in-memory collection
    isAutomating,   \* useState(true)
    lastSync,       \* useState(new Date())
    interval,       \* due time of the setInterval callback, NoTimer if cleared
    timeouts,       \* pending setTimeout(.., 3000) callbacks: <<[id, due]>>
    isSimulating,   \* useState(false)
    simulation,     \* pending setTimeout(.., 1000) of handleCaptureSimulation
    contactedAt,    \* history: id -> instants at which the lead entered Contacted
    \* --- App of src/unnamed/part_000 ---
    appLeads,           \* useState<Lead[]>: leads
    selectedLead,       \* useState<Lead | null>
    isSendingAIReply,   \* useState(false)
    aiCall,             \* the generateContent call in flight, with its closure
    toast,              \* useState<{message, type} | null>
    capturing           \* isSimulating: the setTimeout(.., 1500) is pending

repoVars == <<db, live, written>>
appVars == <<appLeads, selectedLead, isSendingAIReply, aiCall, toast, capturing>>
schedVars == <<store, leads, isAutomating, lastSync, interval, timeouts,
               isSimulating, simulation, contactedAt>>
vars == <<now, issued, ev, nops, repoVars, schedVars, appVars>>

(***************************************************************************)
(* Bounds                                                                  *)
(***************************************************************************)
MaxIds == 3         \* size of the id universe
MaxOps == 4         \* number of environment operations explored
MaxUserOps == 2     \* number of user actions explored in the scheduler App
MaxManualOps == 3   \* number of row button clicks explored in SpecManual
ManualTime == 11    \* last clock value explored in SpecManual
MaxLiveOps == 1     \* number of user actions explored in SpecLive
LiveTime == 9       \* clock value up to which time passes unconditionally in SpecLive
MaxTime == 17       \* last clock value explored in the scheduler App

(***************************************************************************)
(* Data model                                                              *)
(***************************************************************************)
IdPool == <<"k1", "k2", "k3", "k4", "k5", "k6", "k7", "k8", "k9", "k10", "k11", "k12">>
Ids == {IdPool[i] : i \in 1..MaxIds}

LeadStatus == {"New", "Contacted", "Converted", "Lost", "Processing"}

\* the value of a property that is present but undefined
Undefined == "undefined"

\* Math.floor(Math.random() * 100) in 'user_' + ..., one representative
RandomUsernames == {"user_42"}

\* the empty object {}
EmptyObj == [f \in {} |-> Undefined]

\* lead.f of an object that may lack the property
Get(obj, f) == IF f \in DOMAIN obj THEN obj[f] ELSE Undefined

\* lead.f || dflt for a string property
OrElse(obj, f, dflt) ==
    IF f \in DOMAIN obj /\ obj[f] # Undefined /\ obj[f] # "" THEN obj[f] ELSE dflt

\* { ...base, ...over }
Spread(base, over) ==
    [f \in (DOMAIN base) \cup (DOMAIN over) |->
        IF f \in DOMAIN over THEN over[f] ELSE base[f]]

\* Math.random().toString(36).substr(2, 9): a token not seen before.
\* Tokens are only ever compared for equality, so the first unused one of
\* the pool stands for whichever token is drawn.
FreshId(used) ==
    IdPool[CHOOSE i \in 1..Len(IdPool) :
              /\ IdPool[i] \notin used
              /\ \A j \in 1..(i-1) : IdPool[j] \in used]

HasFresh(used) == \E id \in Ids : id \notin used

(***************************************************************************)
(* JSON and localStorage                                                   *)
(***************************************************************************)
\* a timer handle that is not armed
NoTimer == -1

\* no capture simulation is pending
NoSimulation == [due |-> NoTimer, randomUser |-> ""]

\* localStorage.getItem on a key never written
Absent == [kind |-> "absent"]

\* undefined-valued properties have no JSON form: stringify leaves them out
StringProps == {"id", "username", "full_name", "profile_url", "email", "phone",
                "source_platform", "captured_from", "captured_content", "status"}

JsonObject(obj) ==
    [f \in {g \in DOMAIN obj : ~(g \in StringProps /\ obj[g] = Undefined)} |-> obj[f]]

JSONstringify(coll) ==
    [kind |-> "json", val |-> [i \in 1..Len(coll) |-> JsonObject(coll[i])]]

JSONparse(saved) == saved.val

\* the slot holds the empty string, or text that is not JSON
EmptyText == [kind |-> "empty"]
Unparseable == [kind |-> "unparseable"]

\* JSON.parse throws a SyntaxError on text that is not JSON
JSONparseThrows(saved) == saved.kind = "unparseable"

\* `saved ? .. : ..` takes the second branch for null and for the empty string
Falsy(saved) == saved.kind \in {"absent", "empty"}

(***************************************************************************)
(* API (src/unnamed/part_000)                                              *)
(***************************************************************************)
getLeads(saved) == IF Falsy(saved) THEN <<>> ELSE JSONparse(saved)

\* a load that parses whatever getItem returned and needs a collection
getLeadsThrows_NoGuard(saved) == saved.kind # "json"

\* the call ends in an exception instead of a return: nothing catches the
\* SyntaxError of JSON.parse
getLeadsThrows(saved) == ~Falsy(saved) /\ JSONparseThrows(saved)

saveLeads(coll) == JSONstringify(coll)

\* leads.splice(leads.findIndex(l => l.id === id), 1): an index of -1 removes
\* the last record
deleteLead_Splice(saved, id) ==
    LET old == getLeads(saved)
        coll == IF \E i \in 1..Len(old) : Get(old[i], "id") = id
                   THEN SelectSeq(old, LAMBDA l : Get(l, "id") # id)
                   ELSE SubSeq(old, 1, Len(old) - 1)
    IN  [ret |-> coll, saved |-> saveLeads(coll)]

\* result: the leads returned and the slot as saved
deleteLead(saved, id) ==
    LET coll == SelectSeq(getLeads(saved), LAMBDA l : Get(l, "id") # id)
    IN  [ret |-> coll, saved |-> saveLeads(coll)]

\* an upsert: a record whose id is not found is appended
updateLead_Upsert(saved, updated) ==
    LET old == getLeads(saved)
        coll == IF \E i \in 1..Len(old) : Get(old[i], "id") = updated.id
                   THEN [i \in 1..Len(old) |->
                            IF Get(old[i], "id") = updated.id THEN updated ELSE old[i]]
                   ELSE Append(old, updated)
    IN  [ret |-> coll, saved |-> saveLeads(coll)]

\* an update that moves the record it replaces to the front
updateLead_ToFront(saved, updated) ==
    LET old == getLeads(saved)
        coll == IF \E i \in 1..Len(old) : Get(old[i], "id") = updated.id
                   THEN <<updated>> \o SelectSeq(old, LAMBDA l : Get(l, "id") # updated.id)
                   ELSE old
    IN  [ret |-> coll, saved |-> saveLeads(coll)]

updateLead(saved, updated) ==
    LET old == getLeads(saved)
        coll == [i \in 1..Len(old) |->
                    IF Get(old[i], "id") = updated.id THEN updated ELSE old[i]]
    IN  [ret |-> coll, saved |-> saveLeads(coll)]

addLead(saved, lead, rid, rname, t) ==
    LET old == getLeads(saved)
        newLead == Spread(
            [id |-> rid,
             username |-> OrElse(lead, "username", rname),
             full_name |-> OrElse(lead, "full_name", "New Prospect"),
             email |-> OrElse(lead, "email", ""),
             phone |-> OrElse(lead, "phone", ""),
             source_platform |-> OrElse(lead, "source_platform", "Instagram"),
             captured_from |-> OrElse(lead, "captured_from", "Direct Message"),
             captured_content |-> OrElse(lead, "captured_content", "Interested in your product!"),
             timestamp |-> t,
             status |-> "New",
             notes |-> <<>>],
            lead)
        coll == <<newLead>> \o old
    IN  [ret |-> coll, saved |-> saveLeads(coll), newLead |-> newLead]

(***************************************************************************)
(* SpecRepo: the API object and MockBackend under arbitrary calls          *)
(***************************************************************************)
\* Partial<Lead> arguments of addLead; an optional property may be present
\* with the value undefined
Partials ==
    {EmptyObj}
    \cup {[id |-> i] : i \in Ids}
    \cup {[status |-> "Contacted"]}
    \cup {[full_name |-> Undefined]}
    \cup {[full_name |-> "Sarah Connor", username |-> "sconnor",
           source_platform |-> "Instagram", status |-> "New"]}

\* a record held by a caller whose lead may have been deleted since
StaleLead(id) ==
    [id |-> id, username |-> "user_42", full_name |-> "New Prospect", email |-> "",
     phone |-> "", source_platform |-> "Instagram", captured_from |-> "Direct Message",
     captured_content |-> "Interested in your product!", timestamp |-> 0,
     status |-> "Contacted", notes |-> <<>>]

\* Lead arguments of updateLead: a stored record with one property changed
\* (as the modal builds them), or a record the caller still holds
UpdateInputs(coll) ==
    {StaleLead(j) : j \in Ids} \cup
    UNION {
        {coll[i]}
        \cup {[coll[i] EXCEPT !.status = "Contacted"]}
        \cup {[coll[i] EXCEPT !.notes = <<"call back">>]}
        : i \in {k \in 1..Len(coll) : {"id", "status", "notes"} \subseteq DOMAIN coll[k]}}

\* the scheduler App is not mounted
SchedIdle ==
    /\ store = Absent
    /\ leads = <<>>
    /\ isAutomating = FALSE
    /\ lastSync = 0
    /\ interval = NoTimer
    /\ timeouts = <<>>
    /\ isSimulating = FALSE
    /\ simulation = NoSimulation
    /\ contactedAt = EmptyObj

\* null
null == <<>>

\* the App of part_000 is not mounted
AppIdle ==
    /\ appLeads = <<>>
    /\ selectedLead = null
    /\ isSendingAIReply = FALSE
    /\ aiCall = null
    /\ toast = null
    /\ capturing = FALSE

RepoInit ==
    /\ now = 0
    /\ issued = {}
    /\ ev = [op |-> "init"]
    /\ nops = 0
    /\ db = Absent
    /\ live = {}
    /\ written = EmptyObj
    /\ SchedIdle
    /\ AppIdle

RepoAdd ==
    /\ nops < MaxOps
    /\ nops' = nops + 1
    /\ HasFresh(issued)
    /\ \E lead \in Partials, rname \in RandomUsernames :
        LET r == addLead(db, lead, FreshId(issued), rname, now)
            id == r.newLead.id
        IN  /\ db' = r.saved
            /\ issued' = issued \cup {FreshId(issued), id}
            /\ live' = live \cup {id}
            /\ written' = Spread(written, [i \in {id} |-> r.newLead])
            /\ ev' = [op |-> "addLead", arg |-> lead, returns |-> "Lead[]", ret |-> r.ret]
    /\ UNCHANGED <<now, schedVars, appVars>>

RepoUpdate ==
    /\ nops < MaxOps
    /\ nops' = nops + 1
    /\ \E updated \in UpdateInputs(getLeads(db)) :
        LET r == updateLead(db, updated)
            id == updated.id
        IN  /\ db' = r.saved
            /\ written' = IF id \in live
                            THEN Spread(written, [i \in {id} |-> updated])
                            ELSE written
            /\ ev' = [op |-> "updateLead", arg |-> updated, ret |-> r.ret]
    /\ UNCHANGED <<now, issued, live, schedVars, appVars>>

RepoDelete ==
    /\ nops < MaxOps
    /\ nops' = nops + 1
    /\ \E id \in Ids :
        LET r == deleteLead(db, id)
        IN  /\ db' = r.saved
            /\ live' = live \ {id}
            /\ written' = [i \in (DOMAIN written) \ {id} |-> written[i]]
            /\ ev' = [op |-> "deleteLead", arg |-> id, ret |-> r.ret]
    /\ UNCHANGED <<now, issued, schedVars, appVars>>

RepoList ==
    /\ nops < MaxOps
    /\ nops' = nops + 1
    /\ ev' = [op |-> "getLeads", ret |-> getLeads(db)]
    /\ UNCHANGED <<now, issued, repoVars, schedVars, appVars>>

RepoClock ==
    /\ nops < MaxOps
    /\ nops' = nops + 1
    /\ now' = now + 1
    /\ ev' = [op |-> "clock"]
    /\ UNCHANGED <<issued, repoVars, schedVars, appVars>>



(***************************************************************************)
(* MockBackend (src/index.tsx)                                             *)
(***************************************************************************)
Interval == 8       \* setInterval(.., 8000)
Delay == 3          \* setTimeout(.., 3000)
CaptureDelay == 1   \* setTimeout(.., 1000)

MockBackend_getLeads(saved) == IF Falsy(saved) THEN <<>> ELSE JSONparse(saved)

MockBackend_getLeadsThrows(saved) == ~Falsy(saved) /\ JSONparseThrows(saved)

MockBackend_saveLeads(coll) == JSONstringify(coll)

\* result: the lead returned and the slot as saved; the email, a template
\* string, is the sequence of its pieces
captureLead(saved, leadData, rid, t) ==
    LET old == MockBackend_getLeads(saved)
        newLead == Spread(
            [id |-> rid,
             username |-> OrElse(leadData, "username", "unknown_user"),
             full_name |-> OrElse(leadData, "full_name", "Prospect"),
             profile_url |-> OrElse(leadData, "profile_url", "#"),
             email |-> IF "email" \in DOMAIN leadData /\ leadData.email # <<>>
                         THEN leadData.email
                         ELSE <<Get(leadData, "username"), "@example.com">>,
             phone |-> OrElse(leadData, "phone", "N/A"),
             source_platform |-> OrElse(leadData, "source_platform", "Instagram"),
             captured_from |-> OrElse(leadData, "captured_from", "Comment"),
             captured_content |-> OrElse(leadData, "captured_content", "Interested in your product!"),
             timestamp |-> t,
             status |-> "New"],
            leadData)
        coll == <<newLead>> \o old
    IN  [ret |-> newLead, saved |-> MockBackend_saveLeads(coll)]

\* leads.findIndex(l => l.id === id), 0 for the -1 of the source
findIndex(coll, id) ==
    IF \E i \in 1..Len(coll) : Get(coll[i], "id") = id
    THEN CHOOSE i \in 1..Len(coll) :
            /\ Get(coll[i], "id") = id
            /\ \A j \in 1..(i-1) : Get(coll[j], "id") # id
    ELSE 0

\* an update that forgets the Contacted side effect
updateStatus_NoStamp(saved, id, status, t) ==
    LET old == MockBackend_getLeads(saved)
        index == findIndex(old, id)
    IN  IF index # 0
        THEN LET coll == [old EXCEPT ![index] = [old[index] EXCEPT !.status = status]]
             IN  [found |-> TRUE, ret |-> coll[index], saved |-> MockBackend_saveLeads(coll)]
        ELSE [found |-> FALSE, saved |-> saved]

\* an update that sets the status on every lead instead of the one found
updateStatus_All(saved, id, status, t) ==
    LET old == MockBackend_getLeads(saved)
        index == findIndex(old, id)
    IN  IF index # 0
        THEN LET coll == [i \in 1..Len(old) |->
                            IF status = "Contacted"
                            THEN Spread([old[i] EXCEPT !.status = status], [last_contacted |-> t])
                            ELSE [old[i] EXCEPT !.status = status]]
             IN  [found |-> TRUE, ret |-> coll[index], saved |-> MockBackend_saveLeads(coll)]
        ELSE [found |-> FALSE, saved |-> saved]

\* result: found is FALSE for the null of the source, and nothing is saved
updateStatus(saved, id, status, t) ==
    LET old == MockBackend_getLeads(saved)
        index == findIndex(old, id)
    IN  IF index # 0
        THEN LET set == [old[index] EXCEPT !.status = status]
                 lead == IF status = "Contacted"
                           THEN Spread(set, [last_contacted |-> t])
                           ELSE set
                 coll == [old EXCEPT ![index] = lead]
             IN  [found |-> TRUE, ret |-> lead, saved |-> MockBackend_saveLeads(coll)]
        ELSE [found |-> FALSE, saved |-> saved]

\* MockBackend under arbitrary calls, on its own slot
BackendCapture ==
    /\ nops < MaxOps
    /\ nops' = nops + 1
    /\ HasFresh(issued)
    /\ \E leadData \in {EmptyObj, [username |-> "sarah_biz", status |-> "Contacted"]} :
        LET r == captureLead(store, leadData, FreshId(issued), now)
        IN  /\ store' = r.saved
            /\ issued' = issued \cup {r.ret.id}
            /\ ev' = [op |-> "captureLead", arg |-> leadData, returns |-> "Lead", ret |-> r.ret]
    /\ UNCHANGED <<now, repoVars, appVars, leads, isAutomating, lastSync, interval,
                   timeouts, isSimulating, simulation, contactedAt>>

BackendUpdateStatus ==
    /\ nops < MaxOps
    /\ nops' = nops + 1
    /\ \E id \in Ids, status \in {"Contacted", "Converted"} :
        LET r == updateStatus(store, id, status, now)
        IN  /\ store' = r.saved
            /\ ev' = [op |-> "updateStatus", arg |-> id, status |-> status, found |-> r.found]
    /\ UNCHANGED <<now, issued, repoVars, appVars, leads, isAutomating, lastSync, interval,
                   timeouts, isSimulating, simulation, contactedAt>>

RepoNext ==
    \/ RepoAdd \/ RepoUpdate \/ RepoDelete \/ RepoList \/ RepoClock
    \/ BackendCapture \/ BackendUpdateStatus

SpecRepo == RepoInit /\ [][RepoNext]_vars

(***************************************************************************)
(* SpecSched: the App of src/index.tsx                                     *)
(***************************************************************************)
demoLeads ==
    << [username |-> "alex_design", full_name |-> "Alex Johnson",
        source_platform |-> "Instagram", captured_from |-> "Comment", status |-> "Converted"],
       [username |-> "sarah_biz", full_name |-> "Sarah Smith",
        source_platform |-> "Facebook", captured_from |-> "DM", status |-> "Contacted"],
       [username |-> "tech_guru", full_name |-> "Mark Miller",
        source_platform |-> "Instagram", captured_from |-> "Comment", status |-> "New"],
       [username |-> "growth_expert", full_name |-> "Elena Rose",
        source_platform |-> "Instagram", captured_from |-> "Ad", status |-> "New"] >>

\* demoLeads.forEach(l => MockBackend.captureLead(l)) from the slot `saved`,
\* the first n of them, with the ids drawn in that order
RECURSIVE seed(_, _, _)
seed(saved, n, t) ==
    IF n = 0 THEN saved
    ELSE captureLead(seed(saved, n - 1, t), demoLeads[n], IdPool[n], t).saved

\* history of transitions into Contacted, a creation as Contacted included
Entered(hist, id, t) ==
    Spread(hist, [i \in {id} |-> (IF id \in DOMAIN hist THEN hist[id] ELSE {}) \cup {t}])

\* the arguments handleCaptureSimulation draws at random
\* (one representative user name and source label, both platforms)
randomUsers == {"social_ninja"}
platforms == {"Instagram", "Facebook"}
sources == {"Story Reply"}

\* the mount effects on a first run: the store is seeded and read back, and
\* the automation interval is armed
SchedInit ==
    /\ now = 0
    /\ ev = [op |-> "mount"]
    /\ nops = 0
    /\ db = Absent
    /\ live = {}
    /\ written = EmptyObj
    /\ store = seed(Absent, Len(demoLeads), 0)
    /\ issued = {IdPool[n] : n \in 1..Len(demoLeads)}
    /\ leads = MockBackend_getLeads(store)
    /\ isAutomating = TRUE
    /\ lastSync = 0
    /\ interval = 0 + Interval
    /\ timeouts = <<>>
    /\ isSimulating = FALSE
    /\ simulation = NoSimulation
    /\ contactedAt = [id \in {leads[i].id : i \in {j \in 1..Len(leads) :
                                                      leads[j].status = "Contacted"}} |-> {0}]
    /\ AppIdle

\* the timers that are due now
TickDue == interval # NoTimer /\ interval = now
TimeoutDue(k) == timeouts[k].due = now
SimulationDue == simulation.due # NoTimer /\ simulation.due = now

\* a search that returns the last New lead instead of the first
findNew_Last(coll) ==
    IF \E i \in 1..Len(coll) : coll[i].status = "New"
    THEN CHOOSE i \in 1..Len(coll) :
            /\ coll[i].status = "New"
            /\ \A j \in (i+1)..Len(coll) : coll[j].status # "New"
    ELSE 0

\* leads.find(l => l.status === 'New') as an index, 0 when there is none
findNew(coll) ==
    IF \E i \in 1..Len(coll) : coll[i].status = "New"
    THEN CHOOSE i \in 1..Len(coll) :
            /\ coll[i].status = "New"
            /\ \A j \in 1..(i-1) : coll[j].status # "New"
    ELSE 0

\* an interval armed with the delay of step 4 as its period
Tick_ShortPeriod ==
    /\ TickDue
    /\ interval' = now + Delay
    /\ LET i == findNew(leads)
       IN  IF i # 0
           THEN /\ leads' = [leads EXCEPT ![i] = [leads[i] EXCEPT !.status = "Processing"]]
                /\ timeouts' = Append(timeouts, [id |-> leads[i].id, due |-> now + Delay])
                /\ ev' = [op |-> "tick", id |-> leads[i].id]
           ELSE /\ UNCHANGED <<leads, timeouts>>
                /\ ev' = [op |-> "tick", id |-> Undefined]
    /\ UNCHANGED <<now, issued, nops, repoVars, appVars, store, isAutomating, lastSync,
                   isSimulating, simulation, contactedAt>>

\* a callback that marks the lead and arms no deferred write
Tick_NoTimeout ==
    /\ TickDue
    /\ interval' = now + Interval
    /\ LET i == findNew(leads)
       IN  IF i # 0
           THEN /\ leads' = [leads EXCEPT ![i] = [leads[i] EXCEPT !.status = "Processing"]]
                /\ ev' = [op |-> "tick", id |-> leads[i].id]
           ELSE /\ UNCHANGED leads
                /\ ev' = [op |-> "tick", id |-> Undefined]
    /\ UNCHANGED <<now, issued, nops, repoVars, appVars, store, isAutomating, lastSync,
                   timeouts, isSimulating, simulation, contactedAt>>

\* the setInterval callback
Tick ==
    /\ TickDue
    /\ interval' = now + Interval
    /\ LET i == findNew(leads)
       IN  IF i # 0
           THEN /\ leads' = [leads EXCEPT ![i] = [leads[i] EXCEPT !.status = "Processing"]]
                /\ timeouts' = Append(timeouts, [id |-> leads[i].id, due |-> now + Delay])
                /\ ev' = [op |-> "tick", id |-> leads[i].id]
           ELSE /\ UNCHANGED <<leads, timeouts>>
                /\ ev' = [op |-> "tick", id |-> Undefined]
    /\ UNCHANGED <<now, issued, nops, repoVars, appVars, store, isAutomating, lastSync,
                   isSimulating, simulation, contactedAt>>

\* a callback without the `if (updated)` guard
Step4_Unguarded ==
    \E k \in 1..Len(timeouts) :
        /\ TimeoutDue(k)
        /\ timeouts' = [j \in 1..(Len(timeouts) - 1) |->
                           IF j < k THEN timeouts[j] ELSE timeouts[j + 1]]
        /\ LET id == timeouts[k].id
               updated == updateStatus(store, id, "Contacted", now)
           IN  /\ store' = updated.saved
               /\ ev' = [op |-> "step4", id |-> id, updated |-> updated.found]
               /\ leads' = MockBackend_getLeads(store')
               /\ lastSync' = now
               /\ contactedAt' = IF updated.found THEN Entered(contactedAt, id, now)
                                                   ELSE contactedAt
        /\ UNCHANGED <<now, issued, nops, repoVars, appVars, isAutomating, interval,
                       isSimulating, simulation>>

\* the setTimeout callback of a tick
Step4 ==
    \E k \in 1..Len(timeouts) :
        /\ TimeoutDue(k)
        /\ timeouts' = [j \in 1..(Len(timeouts) - 1) |->
                           IF j < k THEN timeouts[j] ELSE timeouts[j + 1]]
        /\ LET id == timeouts[k].id
               updated == updateStatus(store, id, "Contacted", now)
           IN  /\ store' = updated.saved
               /\ ev' = [op |-> "step4", id |-> id, updated |-> updated.found]
               /\ IF updated.found
                  THEN /\ leads' = MockBackend_getLeads(store')
                       /\ lastSync' = now
                       /\ contactedAt' = Entered(contactedAt, id, now)
                  ELSE UNCHANGED <<leads, lastSync, contactedAt>>
        /\ UNCHANGED <<now, issued, nops, repoVars, appVars, isAutomating, interval,
                       isSimulating, simulation>>

\* a toggle whose cleanup also drops the pending step 4 callbacks
Toggle_CancelPending ==
    /\ nops < MaxUserOps
    /\ nops' = nops + 1
    /\ isAutomating' = ~isAutomating
    /\ interval' = IF isAutomating' THEN now + Interval ELSE NoTimer
    /\ timeouts' = IF isAutomating' THEN timeouts ELSE <<>>
    /\ ev' = [op |-> "toggle"]
    /\ UNCHANGED <<now, issued, repoVars, appVars, store, leads, lastSync,
                   isSimulating, simulation, contactedAt>>

\* a toggle whose effect has no cleanup: the interval keeps running
Toggle_NoCleanup ==
    /\ nops < MaxUserOps
    /\ nops' = nops + 1
    /\ isAutomating' = ~isAutomating
    /\ interval' = IF isAutomating' THEN now + Interval ELSE interval
    /\ ev' = [op |-> "toggle"]
    /\ UNCHANGED <<now, issued, repoVars, appVars, store, leads, lastSync, timeouts,
                   isSimulating, simulation, contactedAt>>

\* a toggle whose effect runs the callback at once when automation is
\* enabled, before the first period has passed
Toggle_TickAtOnce ==
    /\ nops < MaxUserOps
    /\ nops' = nops + 1
    /\ isAutomating' = ~isAutomating
    /\ interval' = IF isAutomating' THEN now ELSE NoTimer
    /\ ev' = [op |-> "toggle"]
    /\ UNCHANGED <<now, issued, repoVars, appVars, store, leads, lastSync, timeouts,
                   isSimulating, simulation, contactedAt>>

\* onClick={() => setIsAutomating(!isAutomating)} and the effect it re-runs:
\* the cleanup clears the interval, the effect arms a new one when enabled
Toggle ==
    /\ nops < MaxUserOps
    /\ nops' = nops + 1
    /\ isAutomating' = ~isAutomating
    /\ interval' = IF isAutomating' THEN now + Interval ELSE NoTimer
    /\ ev' = [op |-> "toggle"]
    /\ UNCHANGED <<now, issued, repoVars, appVars, store, leads, lastSync, timeouts,
                   isSimulating, simulation, contactedAt>>

\* handleCaptureSimulation, up to the setTimeout
CaptureClick ==
    /\ nops < MaxUserOps
    /\ nops' = nops + 1
    /\ ~isSimulating
    /\ isSimulating' = TRUE
    /\ \E randomUser \in randomUsers :
          simulation' = [due |-> now + CaptureDelay, randomUser |-> randomUser]
    /\ ev' = [op |-> "captureClick"]
    /\ UNCHANGED <<now, issued, repoVars, appVars, store, leads, isAutomating, lastSync,
                   interval, timeouts, contactedAt>>

\* a capture callback that does not reload the collection
CaptureFire_NoReload ==
    /\ SimulationDue
    /\ \E platform \in platforms, source \in sources :
        LET r == captureLead(store,
                             [username |-> simulation.randomUser,
                              full_name |-> "Simulated Prospect",
                              source_platform |-> platform,
                              captured_from |-> source,
                              captured_content |-> "This looks amazing! Tell me more about pricing."],
                             FreshId(issued), now)
        IN  /\ store' = r.saved
            /\ issued' = issued \cup {r.ret.id}
            /\ ev' = [op |-> "captureFire", id |-> r.ret.id]
    /\ isSimulating' = FALSE
    /\ simulation' = NoSimulation
    /\ lastSync' = now
    /\ UNCHANGED <<now, nops, repoVars, appVars, leads, isAutomating, interval, timeouts,
                   contactedAt>>

\* the setTimeout callback of handleCaptureSimulation
CaptureFire ==
    /\ SimulationDue
    /\ \E platform \in platforms, source \in sources :
        LET r == captureLead(store,
                             [username |-> simulation.randomUser,
                              full_name |-> "Simulated Prospect",
                              source_platform |-> platform,
                              captured_from |-> source,
                              captured_content |-> "This looks amazing! Tell me more about pricing."],
                             FreshId(issued), now)
        IN  /\ store' = r.saved
            /\ issued' = issued \cup {r.ret.id}
            /\ ev' = [op |-> "captureFire", id |-> r.ret.id]
    /\ leads' = MockBackend_getLeads(store')
    /\ isSimulating' = FALSE
    /\ simulation' = NoSimulation
    /\ lastSync' = now
    /\ UNCHANGED <<now, nops, repoVars, appVars, isAutomating, interval, timeouts, contactedAt>>

\* handleUpdateStatus from the row buttons: 'Send Follow-up' on a lead shown
\* as New, 'Mark as Converted' on a lead shown as Contacted
RowButton ==
    /\ nops' = nops + 1
    /\ \E i \in 1..Len(leads) :
        /\ leads[i].status \in {"New", "Contacted"}
        /\ LET id == leads[i].id
               newStatus == IF leads[i].status = "New" THEN "Contacted" ELSE "Converted"
               r == updateStatus(store, id, newStatus, now)
           IN  /\ store' = r.saved
               /\ ev' = [op |-> "handleUpdateStatus", id |-> id, status |-> newStatus]
               /\ contactedAt' = IF r.found /\ newStatus = "Contacted"
                                   THEN Entered(contactedAt, id, now)
                                   ELSE contactedAt
    /\ leads' = MockBackend_getLeads(store')
    /\ UNCHANGED <<now, issued, repoVars, appVars, isAutomating, lastSync, interval,
                   timeouts, isSimulating, simulation>>

HandleUpdateStatus ==
    /\ nops < MaxUserOps
    /\ RowButton

\* time passes when no timer is due
Elapse ==
    /\ ~TickDue
    /\ ~SimulationDue
    /\ \A k \in 1..Len(timeouts) : ~TimeoutDue(k)
    /\ now' = now + 1
    /\ ev' = [op |-> "advance"]
    /\ UNCHANGED <<issued, nops, repoVars, schedVars, appVars>>

Advance ==
    /\ now < MaxTime
    /\ Elapse

SchedNext ==
    Tick \/ Step4 \/ Toggle \/ CaptureClick \/ CaptureFire \/ HandleUpdateStatus \/ Advance

SpecSched == SchedInit /\ [][SchedNext]_vars

\* the scheduler App with the row buttons as the only user action, up to the
\* first deferred write
ManualUpdate ==
    /\ nops < MaxManualOps
    /\ RowButton

ManualAdvance ==
    /\ now < ManualTime
    /\ Elapse

ManualNext == Tick \/ Step4 \/ ManualUpdate \/ ManualAdvance

SpecManual == SchedInit /\ [][ManualNext]_vars

\* the scheduler App with automation left on, run until its work is done:
\* time passes as long as a lead is New in the store or a timer is pending
LiveCaptureClick ==
    /\ nops < MaxLiveOps
    /\ CaptureClick

LiveUpdate ==
    /\ nops < MaxLiveOps
    /\ RowButton

WorkRemains ==
    \/ \E i \in 1..Len(MockBackend_getLeads(store)) :
          MockBackend_getLeads(store)[i].status = "New"
    \/ timeouts # <<>>
    \/ simulation # NoSimulation

\* a clock value the work is always done by: one period for each lead there
\* can be, after the last instant a user action is explored at
LiveHorizon == LiveTime + Interval * (Len(demoLeads) + MaxLiveOps + 1)

LiveAdvance ==
    /\ now < LiveTime \/ (WorkRemains /\ now < LiveHorizon)
    /\ Elapse

LiveNext ==
    Tick \/ Step4 \/ CaptureFire \/ LiveCaptureClick \/ LiveUpdate \/ LiveAdvance

\* timers fire when due and time passes
SpecLive ==
    /\ SchedInit
    /\ [][LiveNext]_vars
    /\ WF_vars(Tick)
    /\ WF_vars(Step4)
    /\ WF_vars(CaptureFire)
    /\ WF_vars(LiveAdvance)

\* the slot is removed while the page is open (site data cleared)
StorageCleared ==
    /\ nops < MaxUserOps
    /\ nops' = nops + 1
    /\ store # Absent
    /\ store' = Absent
    /\ ev' = [op |-> "storageCleared"]
    /\ UNCHANGED <<now, issued, repoVars, appVars, leads, isAutomating, lastSync, interval,
                   timeouts, isSimulating, simulation, contactedAt>>

SchedEnvNext == SchedNext \/ StorageCleared

\* the scheduler App with a store that can be emptied from outside
SpecSchedEnv == SchedInit /\ [][SchedEnvNext]_vars

(***************************************************************************)
(* SpecApp: the App of src/unnamed/part_000                                *)
(***************************************************************************)
\* new Date().toLocaleString() as text
TimeStrings == <<"t0", "t1", "t2", "t3", "t4", "t5", "t6", "t7", "t8", "t9", "t10", "t11">>
toLocaleString(t) == TimeStrings[t + 1]

\* response.text of the model: empty, or a reply
ResponseTexts == {"", "Happy to help - book a call"}

\* e.target.value of the notes textarea
NoteTexts == {<<>>, <<"call back">>}

\* the mount effect on a first run
AppInit ==
    /\ now = 0
    /\ ev = [op |-> "mount"]
    /\ nops = 0
    /\ live = {}
    /\ written = EmptyObj
    /\ SchedIdle
    /\ db = addLead(addLead(Absent,
                            [full_name |-> "Sarah Connor", username |-> "sconnor",
                             source_platform |-> "Instagram", status |-> "New"],
                            IdPool[1], "user_42", 0).saved,
                    [full_name |-> "John Doe", username |-> "jdoe_88",
                     source_platform |-> "Facebook", status |-> "Converted"],
                    IdPool[2], "user_42", 0).saved
    /\ issued = {IdPool[1], IdPool[2]}
    /\ appLeads = getLeads(db)
    /\ selectedLead = null
    /\ isSendingAIReply = FALSE
    /\ aiCall = null
    /\ toast = null
    /\ capturing = FALSE

AppStep ==
    /\ nops < MaxOps
    /\ nops' = nops + 1

\* onClick={() => setSelectedLead(lead)} on a row; the modal covers the rows
\* while a lead is selected
SelectLead ==
    /\ AppStep
    /\ selectedLead = null
    /\ \E i \in 1..Len(appLeads) :
        /\ selectedLead' = appLeads[i]
        /\ ev' = [op |-> "select", id |-> Get(appLeads[i], "id")]
    /\ UNCHANGED <<now, issued, repoVars, schedVars, appLeads, isSendingAIReply,
                   aiCall, toast, capturing>>

\* the close button of the modal
CloseModal ==
    /\ AppStep
    /\ selectedLead # null
    /\ selectedLead' = null
    /\ ev' = [op |-> "close"]
    /\ UNCHANGED <<now, issued, repoVars, schedVars, appLeads, isSendingAIReply,
                   aiCall, toast, capturing>>

\* a commit that treats the write as a new capture
Commit_Restamp(updated) ==
    LET r == updateLead(db, [updated EXCEPT !.timestamp = now])
    IN  /\ selectedLead' = [updated EXCEPT !.timestamp = now]
        /\ db' = r.saved
        /\ appLeads' = r.ret

\* a commit that writes the record by removing the old one and putting the
\* new one in front
Commit_Prepend(updated) ==
    LET old == getLeads(db)
        coll == <<updated>> \o SelectSeq(old, LAMBDA l : Get(l, "id") # updated.id)
    IN  /\ selectedLead' = updated
        /\ db' = saveLeads(coll)
        /\ appLeads' = coll

\* setSelectedLead(updated); setLeads(API.updateLead(updated))
Commit(updated) ==
    LET r == updateLead(db, updated)
    IN  /\ selectedLead' = updated
        /\ db' = r.saved
        /\ appLeads' = r.ret

\* a status select that stamps the contact time on every change
StatusChange_Stamp ==
    /\ AppStep
    /\ selectedLead # null
    /\ \E status \in LeadStatus :
        /\ Commit(Spread([selectedLead EXCEPT !.status = status], [last_contacted |-> now]))
        /\ ev' = [op |-> "status", id |-> selectedLead.id, status |-> status]
    /\ toast' = [message |-> "Lead status updated", type |-> "info"]
    /\ UNCHANGED <<now, issued, live, written, schedVars, isSendingAIReply, aiCall, capturing>>

\* onChange of the status select
StatusChange ==
    /\ AppStep
    /\ selectedLead # null
    /\ \E status \in LeadStatus :
        /\ Commit([selectedLead EXCEPT !.status = status])
        /\ ev' = [op |-> "status", id |-> selectedLead.id, status |-> status]
    /\ toast' = [message |-> "Lead status updated", type |-> "info"]
    /\ UNCHANGED <<now, issued, live, written, schedVars, isSendingAIReply, aiCall, capturing>>

\* onChange of the notes textarea
NotesChange ==
    /\ AppStep
    /\ selectedLead # null
    /\ \E text \in NoteTexts :
        /\ Commit(Spread(selectedLead, [notes |-> text]))
        /\ ev' = [op |-> "notes", id |-> selectedLead.id]
    /\ UNCHANGED <<now, issued, live, written, schedVars, isSendingAIReply, aiCall,
                   toast, capturing>>

\* the 'Mark as Converted' button
MarkConverted ==
    /\ AppStep
    /\ selectedLead # null
    /\ Commit([selectedLead EXCEPT !.status = "Converted"])
    /\ ev' = [op |-> "status", id |-> selectedLead.id, status |-> "Converted"]
    /\ toast' = [message |-> "Congratulations! Lead Converted.", type |-> "success"]
    /\ UNCHANGED <<now, issued, live, written, schedVars, isSendingAIReply, aiCall, capturing>>

\* handleSendAIReply up to the await: the closure keeps the selectedLead of
\* the render in which the button was clicked
SendAIReply ==
    /\ AppStep
    /\ selectedLead # null
    /\ ~isSendingAIReply
    /\ isSendingAIReply' = TRUE
    /\ aiCall' = [selectedLead |-> selectedLead]
    /\ ev' = [op |-> "sendAIReply", id |-> selectedLead.id]
    /\ UNCHANGED <<now, issued, repoVars, schedVars, appLeads, selectedLead, toast, capturing>>

\* handleSendAIReply after the await, the call having succeeded
AIReplySent ==
    /\ aiCall # null
    /\ \E text \in ResponseTexts :
        LET lead == aiCall.selectedLead
            reply == IF text # "" THEN text
                     ELSE "Thanks for reaching out! We'd love to help. When are you free for a quick chat?"
            notes == IF "notes" \in DOMAIN lead /\ lead.notes # <<>> THEN lead.notes ELSE <<>>
            updated == Spread(lead,
                          [status |-> "Contacted",
                           notes |-> notes \o <<"\n\n[AI Reply Sent at ", toLocaleString(now),
                                                "]:\n", reply>>])
        IN  /\ Commit(updated)
            /\ ev' = [op |-> "aiReply", id |-> lead.id, reply |-> reply]
    /\ toast' = [message |-> "AI Reply sent", type |-> "success"]
    /\ isSendingAIReply' = FALSE
    /\ aiCall' = null
    /\ UNCHANGED <<now, issued, nops, live, written, schedVars, capturing>>

\* a failure path that has already marked the lead Contacted
AIReplyFailed_Contacted ==
    /\ aiCall # null
    /\ Commit([aiCall.selectedLead EXCEPT !.status = "Contacted"])
    /\ toast' = [message |-> "Failed to generate AI reply", type |-> "error"]
    /\ isSendingAIReply' = FALSE
    /\ aiCall' = null
    /\ ev' = [op |-> "aiFailed", id |-> aiCall.selectedLead.id]
    /\ UNCHANGED <<now, issued, nops, live, written, schedVars, capturing>>

\* handleSendAIReply after the await, the call having thrown
AIReplyFailed ==
    /\ aiCall # null
    /\ toast' = [message |-> "Failed to generate AI reply", type |-> "error"]
    /\ isSendingAIReply' = FALSE
    /\ aiCall' = null
    /\ ev' = [op |-> "aiFailed", id |-> aiCall.selectedLead.id]
    /\ UNCHANGED <<now, issued, nops, repoVars, schedVars, appLeads, selectedLead, capturing>>

\* simulateCapture up to the setTimeout; the button is disabled meanwhile
SimulateCapture ==
    /\ AppStep
    /\ selectedLead = null
    /\ ~capturing
    /\ HasFresh(issued)
    /\ capturing' = TRUE
    /\ ev' = [op |-> "simulateCapture"]
    /\ UNCHANGED <<now, issued, repoVars, schedVars, appLeads, selectedLead,
                   isSendingAIReply, aiCall, toast>>

\* the setTimeout callback of simulateCapture
Captured ==
    /\ capturing
    /\ \E full_name \in {"Elena Fisher", "Chloe Frazer"}, platform \in platforms,
          rname \in RandomUsernames :
        LET r == addLead(db,
                         [full_name |-> full_name,
                          source_platform |-> platform,
                          captured_content |-> "This looks interesting! Can I get a demo?",
                          captured_from |-> "Post Comment"],
                         FreshId(issued), rname, now)
        IN  /\ db' = r.saved
            /\ appLeads' = r.ret
            /\ issued' = issued \cup {r.newLead.id}
            /\ ev' = [op |-> "captured", id |-> r.newLead.id]
    /\ capturing' = FALSE
    /\ toast' = [message |-> "New Meta lead captured automatically!", type |-> "info"]
    /\ UNCHANGED <<now, nops, live, written, schedVars, selectedLead, isSendingAIReply, aiCall>>

\* deleteLead of the App, the confirm() dialog answered with OK
AppDelete ==
    /\ AppStep
    /\ selectedLead = null
    /\ \E i \in 1..Len(appLeads) :
        LET id == Get(appLeads[i], "id")
            r == deleteLead(db, id)
        IN  /\ db' = r.saved
            /\ appLeads' = r.ret
            /\ selectedLead' = IF selectedLead # null /\ Get(selectedLead, "id") = id
                                 THEN null ELSE selectedLead
            /\ ev' = [op |-> "delete", id |-> id]
    /\ toast' = [message |-> "Lead deleted successfully", type |-> "success"]
    /\ UNCHANGED <<now, issued, live, written, schedVars, isSendingAIReply, aiCall, capturing>>

\* time passes
AppClock ==
    /\ AppStep
    /\ now' = now + 1
    /\ ev' = [op |-> "clock"]
    /\ UNCHANGED <<issued, repoVars, schedVars, appVars>>

AppNext ==
    \/ SelectLead \/ CloseModal \/ StatusChange \/ NotesChange \/ MarkConverted
    \/ SendAIReply \/ AIReplySent \/ AIReplyFailed
    \/ SimulateCapture \/ Captured \/ AppDelete \/ AppClock

SpecApp == AppInit /\ [][AppNext]_vars

(***************************************************************************)
(* SpecMount: a page load of either App on whatever the slots hold         *)
(***************************************************************************)
\* what the slot of part_000 can hold when the page loads: nothing, the
\* empty string, text that is not JSON, or a collection saved earlier
PersistedSlots ==
    {Absent, EmptyText, Unparseable, JSONstringify(<<>>),
     addLead(Absent, EmptyObj, IdPool[3], "user_42", 0).saved,
     addLead(addLead(Absent, [status |-> "Contacted"], IdPool[3], "user_42", 0).saved,
             EmptyObj, IdPool[4], "user_42", 0).saved}

\* the same for the slot of index.tsx
BackendSlots ==
    {Absent, EmptyText, Unparseable, MockBackend_saveLeads(<<>>),
     captureLead(Absent, [username |-> "sarah_biz", status |-> "Contacted"],
                 IdPool[3], 0).saved}

MountInit ==
    /\ now = 0
    /\ issued = {}
    /\ ev = [op |-> "start"]
    /\ nops = 0
    /\ db \in PersistedSlots
    /\ store \in BackendSlots
    /\ live = {}
    /\ written = EmptyObj
    /\ leads = <<>>
    /\ isAutomating = FALSE
    /\ lastSync = 0
    /\ interval = NoTimer
    /\ timeouts = <<>>
    /\ isSimulating = FALSE
    /\ simulation = NoSimulation
    /\ contactedAt = EmptyObj
    /\ AppIdle

\* API.getLeads() called on its own
Load ==
    /\ nops < MaxOps
    /\ nops' = nops + 1
    /\ ev' = IF getLeadsThrows(db)
               THEN [op |-> "getLeads", threw |-> TRUE]
               ELSE [op |-> "getLeads", threw |-> FALSE, ret |-> getLeads(db)]
    /\ UNCHANGED <<now, issued, repoVars, schedVars, appVars>>

\* MockBackend.getLeads() called on its own
BackendLoad ==
    /\ nops < MaxOps
    /\ nops' = nops + 1
    /\ ev' = IF MockBackend_getLeadsThrows(store)
               THEN [op |-> "MockBackend.getLeads", threw |-> TRUE]
               ELSE [op |-> "MockBackend.getLeads", threw |-> FALSE,
                     ret |-> MockBackend_getLeads(store)]
    /\ UNCHANGED <<now, issued, repoVars, schedVars, appVars>>

\* a page load of part_000: the state starts from its useState values and
\* the mount effect runs; an exception in the effect is not caught and the
\* App is unmounted
AppMount ==
    /\ nops < MaxOps
    /\ nops' = nops + 1
    /\ IF getLeadsThrows(db)
       THEN /\ ev' = [op |-> "appMount", threw |-> TRUE]
            /\ appLeads' = <<>>
            /\ UNCHANGED <<db, issued>>
       ELSE LET data == getLeads(db)
                seeded ==
                    addLead(addLead(db,
                                    [full_name |-> "Sarah Connor", username |-> "sconnor",
                                     source_platform |-> "Instagram", status |-> "New"],
                                    IdPool[1], "user_42", now).saved,
                            [full_name |-> "John Doe", username |-> "jdoe_88",
                             source_platform |-> "Facebook", status |-> "Converted"],
                            IdPool[2], "user_42", now).saved
            IN  /\ ev' = [op |-> "appMount", threw |-> FALSE]
                /\ IF Len(data) = 0
                   THEN /\ db' = seeded
                        /\ appLeads' = getLeads(seeded)
                        /\ issued' = issued \cup {IdPool[1], IdPool[2]}
                   ELSE /\ appLeads' = data
                        /\ UNCHANGED <<db, issued>>
    /\ selectedLead' = null
    /\ isSendingAIReply' = FALSE
    /\ aiCall' = null
    /\ toast' = null
    /\ capturing' = FALSE
    /\ UNCHANGED <<now, live, written, schedVars>>

\* a page load of index.tsx: the load effect, then the automation effect
\* arms the interval; after an exception in the load effect the App is
\* unmounted and the cleanup clears the interval
SchedMount ==
    /\ nops < MaxOps
    /\ nops' = nops + 1
    /\ IF MockBackend_getLeadsThrows(store)
       THEN /\ ev' = [op |-> "schedMount", threw |-> TRUE]
            /\ leads' = <<>>
            /\ isAutomating' = FALSE
            /\ interval' = NoTimer
            /\ UNCHANGED <<store, issued>>
       ELSE LET data == MockBackend_getLeads(store)
                seeded == seed(store, Len(demoLeads), now)
            IN  /\ ev' = [op |-> "schedMount", threw |-> FALSE]
                /\ isAutomating' = TRUE
                /\ interval' = now + Interval
                /\ IF Len(data) = 0
                   THEN /\ store' = seeded
                        /\ leads' = MockBackend_getLeads(seeded)
                        /\ issued' = issued \cup {IdPool[n] : n \in 1..Len(demoLeads)}
                   ELSE /\ leads' = data
                        /\ UNCHANGED <<store, issued>>
    /\ lastSync' = now
    /\ timeouts' = <<>>
    /\ isSimulating' = FALSE
    /\ simulation' = NoSimulation
    /\ UNCHANGED <<now, repoVars, appVars, contactedAt>>

MountNext == Load \/ BackendLoad \/ AppMount \/ SchedMount

SpecMount == MountInit /\ [][MountNext]_vars

(***************************************************************************)
(* Properties of the repository                                            *)
(***************************************************************************)
IdsOf(coll) == {Get(coll[i], "id") : i \in 1..Len(coll)}

\* C1: after any sequence of addLead, updateLead and deleteLead calls the
\* collection read back holds exactly the ids created and not deleted
\* afterwards, and every record holds the values last written for its id.
C1_ListIsHistory ==
    LET coll == getLeads(db)
    IN  /\ IdsOf(coll) = live
        /\ \A i \in 1..Len(coll) :
              /\ coll[i].id \in DOMAIN written
              /\ coll[i] = JsonObject(written[coll[i].id])

\* C9: an update with an id that is not in the collection adds no record
\* and leaves the persisted records and their order as they were:
\* API.updateLead returns the collection as read, MockBackend.updateStatus
\* returns null and does not write.
C9_UpdateMissingIsNoOp ==
    [][/\ (ev'.op = "updateLead" /\ ev'.arg.id \notin IdsOf(getLeads(db)))
            => /\ getLeads(db') = getLeads(db)
               /\ ev'.ret = getLeads(db)
       /\ (ev'.op = "updateStatus" /\ ev'.arg \notin IdsOf(MockBackend_getLeads(store)))
            => /\ store' = store
               /\ ~ev'.found]_vars

C9_Witness ==
    /\ ev.op = "updateLead"
    /\ ev.arg.id \notin IdsOf(getLeads(db))
    /\ Len(getLeads(db)) >= 1

\* C10: deleteLead with an id that is not in the collection returns the
\* collection unchanged (same records, same order) and the persisted
\* collection is unchanged too.
C10_DeleteMissingIsNoOp ==
    [][(ev'.op = "deleteLead" /\ ev'.arg \notin IdsOf(getLeads(db)))
        => /\ ev'.ret = getLeads(db)
           /\ getLeads(db') = getLeads(db)]_vars

C10_Witness ==
    /\ ev.op = "deleteLead"
    /\ ev.arg \notin live
    /\ Len(getLeads(db)) >= 2
    /\ ev.ret = getLeads(db)

\* the attributes the data model requires of every lead
RequiredProps ==
    {"id", "username", "full_name", "email", "phone", "source_platform",
     "captured_from", "captured_content", "timestamp", "status"}

IsSet(l, f) == f \in DOMAIN l /\ (f \in StringProps => l[f] # Undefined)

FullyPopulated(coll) ==
    \A i \in 1..Len(coll) : \A f \in RequiredProps : IsSet(coll[i], f)

\* C11: whatever partial input a create call is given, the record it
\* produces has every required attribute set, and no record in either
\* store ever lacks a required attribute.
C11_RequiredFieldsSet ==
    /\ FullyPopulated(getLeads(db))
    /\ FullyPopulated(MockBackend_getLeads(store))
    /\ ev.op = "addLead" => FullyPopulated(<<Head(ev.ret)>>)
    /\ ev.op = "captureLead" => FullyPopulated(<<ev.ret>>)

\* the defaults the specification documents for a create call
DocumentedDefaults ==
    [full_name |-> "New Prospect", email |-> "", phone |-> "",
     source_platform |-> "Instagram", captured_from |-> "Direct Message",
     notes |-> <<>>, status |-> "New"]

AsDocumented(new, arg) ==
    \A f \in (DOMAIN DocumentedDefaults) \cup (DOMAIN arg) :
        /\ f \in DOMAIN new
        /\ new[f] = IF f \in DOMAIN arg THEN arg[f] ELSE DocumentedDefaults[f]

\* C12: the record a create call stores holds, for every attribute the
\* caller omitted, the documented default (full_name New Prospect, email and
\* phone empty, source_platform Instagram, captured_from Direct Message,
\* notes empty, status New) and, for every attribute the caller supplied,
\* the supplied value.
C12_DefaultsAndSupplied ==
    [][/\ ev'.op = "addLead" => AsDocumented(Head(getLeads(db')), ev'.arg)
       /\ ev'.op = "captureLead"
            => AsDocumented(Head(MockBackend_getLeads(store')), ev'.arg)]_vars

\* C13: a create call stores the new record in front of the previous
\* records, which keep their values and order, and returns the whole updated
\* collection, equal to what a read returns right afterwards.
C13_CreatePrependsAndReturnsAll ==
    [][/\ ev'.op = "addLead"
            => /\ Tail(getLeads(db')) = getLeads(db)
               /\ ev'.returns = "Lead[]"
               /\ ev'.ret = getLeads(db')
       /\ ev'.op = "captureLead"
            => /\ Tail(MockBackend_getLeads(store')) = MockBackend_getLeads(store)
               /\ ev'.returns = "Lead[]"
               /\ ev'.ret = MockBackend_getLeads(store')]_vars

UniqueIds(coll) ==
    \A i, j \in 1..Len(coll) : i # j => Get(coll[i], "id") # Get(coll[j], "id")

\* C14: no two persisted records have the same id, whatever calls were made
\* and whatever the id generator or the caller's partial input supplied.
C14_IdsAreUnique ==
    /\ UniqueIds(getLeads(db))
    /\ UniqueIds(MockBackend_getLeads(store))

\* C17: updateLead given a record equal, attribute for attribute, to a
\* stored record of the same id leaves the collection as it was, and a
\* second identical call changes nothing more.
C17_UpdateUnchangedIsNoOp ==
    [][(ev'.op = "updateLead" /\ \E i \in 1..Len(getLeads(db)) : getLeads(db)[i] = ev'.arg)
        => /\ getLeads(db') = getLeads(db)
           /\ ev'.ret = getLeads(db)
           /\ updateLead(db', ev'.arg).saved = db']_vars

\* C23: updateLead and deleteLead change only the records with the given
\* id: update replaces them where they stand, delete removes them, and
\* every other record keeps its values and its place relative to the others.
C23_UpdateDeleteFrame ==
    [][/\ ev'.op = "updateLead"
            => LET old == getLeads(db)
                   new == getLeads(db')
               IN  /\ Len(new) = Len(old)
                   /\ \A i \in 1..Len(old) :
                         new[i] = IF Get(old[i], "id") = ev'.arg.id
                                    THEN JsonObject(ev'.arg) ELSE old[i]
                   /\ ev'.ret = new
       /\ ev'.op = "deleteLead"
            => LET old == getLeads(db)
                   kept == SelectSeq(old, LAMBDA l : Get(l, "id") # ev'.arg)
               IN  /\ getLeads(db') = kept
                   /\ ev'.ret = kept]_vars

C23_Witness ==
    /\ ev.op = "updateLead"
    /\ Len(getLeads(db)) >= 3
    /\ Get(getLeads(db)[2], "id") = ev.arg.id
    /\ getLeads(db)[2] = ev.arg
    /\ getLeads(db)[1] # ev.arg
    /\ getLeads(db)[3] # ev.arg
    /\ ev.arg.notes # <<>>

(***************************************************************************)
(* Properties of the automation scheduler                                  *)
(***************************************************************************)
\* the records of a collection that carry the id
WithId(coll, id) == {coll[i] : i \in {j \in 1..Len(coll) : Get(coll[j], "id") = id}}

Pending(id) == \E k \in 1..Len(timeouts) : timeouts[k].id = id

ContactedAtNow(coll, id, t) ==
    /\ WithId(coll, id) # {}
    /\ \A l \in WithId(coll, id) :
          /\ l.status = "Contacted"
          /\ "last_contacted" \in DOMAIN l
          /\ l.last_contacted = t

\* C2: the lead a tick selects is Processing right after the tick, its
\* step 4 is set for 3 time units later, and once that step has run the lead
\* is Contacted with last_contacted set, in memory and in the store.
C2_TickThenContacted ==
    [][/\ (ev'.op = "tick" /\ ev'.id # Undefined)
            => /\ \A l \in WithId(leads', ev'.id) : l.status = "Processing"
               /\ WithId(leads', ev'.id) # {}
               /\ \E k \in 1..Len(timeouts') :
                     timeouts'[k] = [id |-> ev'.id, due |-> now + Delay]
       /\ ev'.op = "step4"
            => /\ \E k \in 1..Len(timeouts) :
                     timeouts[k] = [id |-> ev'.id, due |-> now]
               /\ ContactedAtNow(leads', ev'.id, now)
               /\ ContactedAtNow(MockBackend_getLeads(store'), ev'.id, now)]_vars

C2_Witness ==
    /\ ev.op = "step4"
    /\ ev.updated
    /\ ContactedAtNow(leads, ev.id, now)
    /\ now = Interval + Delay

\* C3: a tick changes at most one lead: the first New lead in collection
\* order becomes Processing and nothing else changes; without a New lead the
\* tick changes nothing and sets no delayed step.
C3_TickAdvancesOne ==
    [][ev'.op = "tick" =>
        LET news == {i \in 1..Len(leads) : leads[i].status = "New"}
        IN  /\ store' = store
            /\ Len(leads') = Len(leads)
            /\ news = {} => (leads' = leads /\ timeouts' = timeouts)
            /\ news # {} =>
                 \E i \in news :
                    /\ \A j \in news : i <= j
                    /\ leads'[i] = [leads[i] EXCEPT !.status = "Processing"]
                    /\ \A j \in 1..Len(leads) : j # i => leads'[j] = leads[j]
                    /\ Len(timeouts') = Len(timeouts) + 1]_vars

C3_Witness ==
    /\ ev.op = "tick"
    /\ Cardinality({i \in 1..Len(leads) : leads[i].status = "Processing"}) = 1
    /\ \E i \in 1..Len(leads) : leads[i].status = "New"

\* C4: switching automation off while a step 4 is pending leaves it pending,
\* time does not pass its due instant without it running, and when it runs
\* with automation off the lead is Contacted with last_contacted set.
C4_PendingSurvivesToggle ==
    [][/\ ev'.op = "toggle" => timeouts' = timeouts
       /\ now' > now => \A k \in 1..Len(timeouts) : timeouts[k].due > now
       /\ (ev'.op = "step4" /\ ~isAutomating)
            => /\ ContactedAtNow(leads', ev'.id, now)
               /\ ContactedAtNow(MockBackend_getLeads(store'), ev'.id, now)]_vars

C4_Witness ==
    /\ ev.op = "step4"
    /\ ~isAutomating
    /\ ContactedAtNow(MockBackend_getLeads(store), ev.id, now)

\* C5: while automation is off no tick runs: no step moves a lead from New
\* to Processing and no step adds a delayed step 4.
C5_NoTickWhileOff ==
    [][~isAutomating =>
        /\ ev'.op # "tick"
        /\ Len(timeouts') <= Len(timeouts)
        /\ \A i \in 1..Len(leads), j \in 1..Len(leads') :
              (leads[i].id = leads'[j].id /\ leads[i].status = "New")
                  => leads'[j].status # "Processing"]_vars

C5_Witness ==
    /\ ~isAutomating
    /\ interval = NoTimer
    /\ now > Interval
    /\ ev.op = "advance"
    /\ \E i \in 1..Len(leads) : leads[i].status = "New"

\* C6: a lead whose step 4 is pending is not selected by a tick, and no lead
\* has two delayed steps pending.
C6_NoReselection ==
    [][/\ (ev'.op = "tick" /\ ev'.id # Undefined) => ~Pending(ev'.id)
       /\ \A k1, k2 \in 1..Len(timeouts') :
             k1 # k2 => timeouts'[k1].id # timeouts'[k2].id]_vars

C6_Witness ==
    /\ ev.op = "tick"
    /\ ev.id # Undefined
    /\ \E i \in 1..Len(leads) :
          /\ leads[i].status = "Contacted"
          /\ "last_contacted" \in DOMAIN leads[i]
          /\ leads[i].last_contacted = now - (Interval - Delay)

\* C7: every step that changes the persisted status of a lead to Contacted
\* sets its last_contacted to the instant of the step, which is not before
\* the creation timestamp of the lead.
EntersContacted(old, new, id) ==
    /\ WithId(old, id) # {}
    /\ \A l \in WithId(old, id) : l.status # "Contacted"
    /\ \E l \in WithId(new, id) : l.status = "Contacted"

Stamped(new, id, t) ==
    \A l \in WithId(new, id) :
        l.status = "Contacted"
            => /\ "last_contacted" \in DOMAIN l
               /\ l.last_contacted = t
               /\ l.last_contacted >= l.timestamp

C7_ContactedSetsLastContacted ==
    [][/\ \A id \in IdsOf(getLeads(db')) :
             EntersContacted(getLeads(db), getLeads(db'), id)
                 => Stamped(getLeads(db'), id, now)
       /\ \A id \in IdsOf(MockBackend_getLeads(store')) :
             EntersContacted(MockBackend_getLeads(store), MockBackend_getLeads(store'), id)
                 => Stamped(MockBackend_getLeads(store'), id, now)]_vars

\* C8: last_contacted is unset on a lead that never had status Contacted and
\* otherwise holds the instant at which the lead entered Contacted, leads
\* created with an explicit status included.
C8_LastContactedTracksHistory ==
    \A l \in {MockBackend_getLeads(store)[i] : i \in 1..Len(MockBackend_getLeads(store))} :
        IF l.id \notin DOMAIN contactedAt
        THEN "last_contacted" \notin DOMAIN l
        ELSE /\ "last_contacted" \in DOMAIN l
             /\ l.last_contacted \in contactedAt[l.id]

(***************************************************************************)
(* Properties of the updates made through the user interface               *)
(***************************************************************************)
SameTimestamps(old, new) ==
    \A i \in 1..Len(old), j \in 1..Len(new) :
        Get(old[i], "id") = Get(new[j], "id") => old[i].timestamp = new[j].timestamp

\* C15: no update made by the application (an edit of the record in the
\* modal, a status change, an AI reply, the scheduler's deferred write)
\* changes the timestamp of a stored lead: each lead has after the step the
\* timestamp it had before.
C15_TimestampFixed ==
    [][/\ SameTimestamps(getLeads(db), getLeads(db'))
       /\ SameTimestamps(MockBackend_getLeads(store), MockBackend_getLeads(store'))]_vars

C15_Witness ==
    /\ ev.op \in {"status", "notes", "aiReply"}
    /\ now > 0
    /\ \E l \in WithId(getLeads(db), ev.id) : l.timestamp < now /\ l = selectedLead

\* C16: choosing Processing, Converted, Lost or New for a lead changes the
\* status attribute of that lead and nothing else: its other attributes
\* (last_contacted, timestamp, notes included) and all other leads, and the
\* order of the collection, stay as they were.
C16_StatusChangeFrame ==
    [][(ev'.op = "status" /\ ev'.status # "Contacted")
        => LET old == getLeads(db)
               new == getLeads(db')
           IN  /\ Len(new) = Len(old)
               /\ \A i \in 1..Len(old) :
                     new[i] = IF Get(old[i], "id") = ev'.id
                                THEN [old[i] EXCEPT !.status = ev'.status]
                                ELSE old[i]]_vars

C16_Witness ==
    /\ ev.op = "status"
    /\ ev.status = "Lost"
    /\ \E l \in WithId(getLeads(db), ev.id) : l.status = "Lost" /\ l.notes # <<>>

\* C20: when the AI call fails the step that handles the failure leaves the
\* persisted collection, the collection in memory and the selected lead
\* (its status and notes included) exactly as they were; it only shows the
\* failure notice and ends the sending state.
C20_AIFailureChangesNothing ==
    [][ev'.op = "aiFailed"
        => /\ db' = db
           /\ appLeads' = appLeads
           /\ selectedLead' = selectedLead
           /\ toast' = [message |-> "Failed to generate AI reply", type |-> "error"]
           /\ ~isSendingAIReply']_vars

C20_Witness ==
    /\ ev.op = "aiFailed"
    /\ toast # null
    /\ toast.type = "error"
    /\ selectedLead # null
    /\ selectedLead.id = ev.id
    /\ \E l \in WithId(getLeads(db), ev.id) : l.status = "New" /\ l.notes = <<>>

(***************************************************************************)
(* Properties of loading                                                   *)
(***************************************************************************)
\* C18: when the value under the storage key is text that cannot be parsed,
\* a load returns the empty collection without an exception, and a page
\* load comes up with an empty collection instead of stopping.
C18_MalformedLoadsEmpty ==
    /\ (ev.op = "getLeads" /\ db = Unparseable) => (~ev.threw /\ ev.ret = <<>>)
    /\ (ev.op = "MockBackend.getLeads" /\ store = Unparseable)
            => (~ev.threw /\ ev.ret = <<>>)
    /\ (ev.op = "appMount" /\ db = Unparseable) => ~ev.threw
    /\ (ev.op = "schedMount" /\ store = Unparseable) => ~ev.threw

\* C19: when nothing was ever written under the storage key, a load returns
\* the empty collection and ends without an exception.
C19_AbsentLoadsEmpty ==
    /\ (ev.op = "getLeads" /\ db = Absent) => (~ev.threw /\ ev.ret = <<>>)
    /\ (ev.op = "MockBackend.getLeads" /\ store = Absent)
            => (~ev.threw /\ ev.ret = <<>>)

C19_Witness ==
    /\ ev.op = "getLeads"
    /\ db = Absent
    /\ store = Absent
    /\ ~ev.threw
    /\ Len(ev.ret) = 0

(***************************************************************************)
(* Properties of the AI reply                                              *)
(***************************************************************************)
IsPrefix(p, q) == Len(p) <= Len(q) /\ SubSeq(q, 1, Len(p)) = p

\* the text handleSendAIReply appends for a reply at instant t
ReplyNote(reply, t) == <<"\n\n[AI Reply Sent at ", toLocaleString(t), "]:\n", reply>>

\* C21: when the AI call succeeds, the stored lead becomes Contacted and its
\* notes become the notes it had before the step followed by the reply (the
\* notes before are a prefix of the notes after), and the collection in
\* memory is the one the repository's update persisted.
C21_ReplyAppendsToNotes ==
    [][ev'.op = "aiReply"
        => LET old == getLeads(db)
               new == getLeads(db')
           IN  /\ Len(new) = Len(old)
               /\ appLeads' = new
               /\ \A i \in 1..Len(old) :
                     Get(old[i], "id") = ev'.id
                        => /\ new[i].status = "Contacted"
                           /\ IsPrefix(old[i].notes, new[i].notes)
                           /\ new[i].notes[Len(new[i].notes)] = ev'.reply]_vars

\* C29: a change written to a lead while an AI reply for it is pending is
\* kept when the reply arrives: the record persisted on success has the
\* notes the store held at that moment followed by the reply text.
C29_PendingEditsKept ==
    [][ev'.op = "aiReply"
        => \A l \in WithId(getLeads(db), ev'.id) :
              \A m \in WithId(getLeads(db'), ev'.id) :
                 m.notes = l.notes \o ReplyNote(ev'.reply, now)]_vars

\* C30: a lead deleted while an AI reply for it is pending is not brought
\* back when the reply arrives: neither the persisted collection nor the
\* collection the update returns contains its id afterwards.
C30_DeletedStaysDeleted ==
    [][(ev'.op = "aiReply" /\ ev'.id \notin IdsOf(getLeads(db)))
        => /\ ev'.id \notin IdsOf(getLeads(db'))
           /\ ev'.id \notin IdsOf(appLeads')
           /\ getLeads(db') = getLeads(db)]_vars

C30_Witness ==
    /\ ev.op = "aiReply"
    /\ ev.id \notin IdsOf(getLeads(db))
    /\ ev.id \notin IdsOf(appLeads)
    /\ Len(appLeads) = 1
    /\ toast.type = "success"

(***************************************************************************)
(* Properties of the scheduler's deferred write                            *)
(***************************************************************************)
\* C22: the deferred write of a tick keeps what was written in between:
\* every lead other than the one it updates, a lead created after the tick
\* included, is in the store afterwards with the values it had before the
\* write, in the same place, and the collection in memory is the one read
\* back from the store.
C22_Step4KeepsOthers ==
    [][ev'.op = "step4"
        => LET old == MockBackend_getLeads(store)
               new == MockBackend_getLeads(store')
           IN  /\ Len(new) = Len(old)
               /\ \A i \in 1..Len(old) : old[i].id # ev'.id => new[i] = old[i]
               /\ ev'.updated => leads' = new]_vars

C22_Witness ==
    /\ ev.op = "step4"
    /\ ev.updated
    /\ \E i, j \in 1..Len(leads) :
          /\ leads[i].id # ev.id
          /\ leads[i].timestamp > now - Delay
          /\ leads[i].status = "New"
          /\ leads[j].id # ev.id
          /\ "last_contacted" \in DOMAIN leads[j]
          /\ leads[j].last_contacted > now - Delay
          /\ leads[j].last_contacted < now
    /\ leads = MockBackend_getLeads(store)

\* C24: a deferred write that finds its lead sets the last-synchronized
\* time only together with a store that holds Contacted for that lead; one
\* that no longer finds its lead in the store changes neither the store nor
\* the collection in memory nor the last-synchronized time.
C24_SyncAfterContacted ==
    [][ev'.op = "step4"
        => IF ev'.updated
           THEN /\ \E l \in WithId(MockBackend_getLeads(store'), ev'.id) :
                      l.status = "Contacted"
                /\ lastSync' = now
           ELSE /\ WithId(MockBackend_getLeads(store), ev'.id) = {}
                /\ store' = store
                /\ leads' = leads
                /\ lastSync' = lastSync]_vars

C24_Witness ==
    /\ ev.op = "step4"
    /\ ~ev.updated
    /\ store = Absent
    /\ \E l \in WithId(leads, ev.id) : l.status = "Processing"
    /\ lastSync < now

\* C25: the scheduler does not move a lead out of a status written by hand
\* after the tick selected it: when the deferred write fires for a lead whose
\* persisted status is no longer New (Contacted, Converted or Lost), the
\* lead has that same status afterwards.
C25_ManualStatusKept ==
    [][ev'.op = "step4"
        => \A l \in WithId(MockBackend_getLeads(store), ev'.id) :
              l.status # "New"
                 => \A m \in WithId(MockBackend_getLeads(store'), ev'.id) :
                       m.status = l.status]_vars

\* C27: with a period of 8 and a delay of 3, at most one deferred write is
\* pending at any time, whatever toggling of the automation happens: the
\* interval callback never runs while a deferred write is still pending.
C27_OnePendingStep4 ==
    [][/\ Len(timeouts') <= 1
       /\ ev'.op = "tick" => Len(timeouts) = 0]_vars

C27_Witness ==
    /\ ev.op = "tick"
    /\ ev.id # Undefined
    /\ Len(timeouts) = 1
    /\ isAutomating
    /\ now > 2 * Interval
    /\ \E i \in 1..Len(leads) :
          /\ leads[i].status = "Contacted"
          /\ "last_contacted" \in DOMAIN leads[i]
          /\ leads[i].last_contacted = Interval + Delay

\* C28: between callbacks the collection in memory has the leads of the
\* store, in the same order and with the same values, except that a lead
\* whose deferred write is pending may be Processing in memory; the store
\* never holds the status Processing.
C28_MemoryAgreesWithStore ==
    LET st == MockBackend_getLeads(store)
    IN  /\ Len(leads) = Len(st)
        /\ \A i \in 1..Len(st) :
              /\ st[i].status # "Processing"
              /\ \/ leads[i] = st[i]
                 \/ /\ Pending(st[i].id)
                    /\ leads[i] = [st[i] EXCEPT !.status = "Processing"]

C28_Witness ==
    /\ Len(leads) > Len(demoLeads)
    /\ leads # MockBackend_getLeads(store)
    /\ \E i \in 1..Len(leads) :
          /\ leads[i].status = "Processing"
          /\ MockBackend_getLeads(store)[i].status = "New"
          /\ Pending(leads[i].id)

\* C26: with automation left on and finitely many leads created, under fair
\* firing of the timers every lead that is New in the store is later
\* Contacted there: a New lead stays in the store and leaves New only for
\* Contacted, and from some point on the store holds no New lead.
C26_EveryNewContacted ==
    /\ [][\A l \in {MockBackend_getLeads(store)[i] : i \in 1..Len(MockBackend_getLeads(store))} :
             l.status = "New"
                => \E m \in WithId(MockBackend_getLeads(store'), l.id) :
                      m.status \in {"New", "Contacted"}]_vars
    /\ <>[](\A i \in 1..Len(MockBackend_getLeads(store)) :
                MockBackend_getLeads(store)[i].status # "New")

C26_Witness ==
    /\ ev.op = "step4"
    /\ ev.updated
    /\ now > 2 * Interval
    /\ Len(leads) > Len(demoLeads)
    /\ \A i \in 1..Len(leads) : leads[i].status \in {"Contacted", "Converted"}
    /\ leads = MockBackend_getLeads(store)

====
